---- MODULE Spec2Model ----
(***************************************************************************)
(* A model of xcp's orchestrator (src/src/main.rs) and of the libfs        *)
(* helpers it relies on (src/libfs/src/common.rs): extent merging, the two *)
(* user-space copy loops, the batched copy and the status drain loop.      *)
(***************************************************************************)
EXTENDS Integers, Sequences, FiniteSets, TLC

\* ------------------------------------------------------------------------
\* Bounds of the model
\* ------------------------------------------------------------------------

\* Extent positions range over 0..MaxPos. Positions model file offsets, which
\* stay far below 2^64, so p.end + 1 never wraps.
MaxPos == 3
\* Longest enumerated input of merge_extents (the test vectors are longer).
MaxExtents == 3
\* Largest length the caller of the copy loops plans with.
MaxSize == 4
\* Largest len and batch_size handed to copy_bytes_batched, and the most
\* batches a run is followed for (a batch that copies nothing repeats).
MaxBatchLen == 4
MaxBatchSize == 3
MaxBatches == 5
\* Most worker units a driver call leaves running, most status events they
\* send in one run, and the largest value a status event carries.
MaxUnits == 2
MaxEvents == 3
MaxValue == 2

VARIABLES
    \* merge_extents: the argument, the result, the result of a second pass
    extents, merged, remerged, mpc,
    \* the user-space copy loops: which one runs, the source's bytes, the
    \* length the caller plans with, the blocks still to copy, the
    \* destination's bytes, the running call, its locals, the reader's
    \* position, the program counter, the last call's result, the caller's
    \* sum of returned values
    fn, src, size, todo, dst, call, written, rlen, buf, rpos, cpc, result, total,
    \* history: the successful calls, the offsets in call order, whether a
    \* read came back short, the state at a premature end of file
    rets, order, shortRead, eof,
    \* copy_bytes_batched: len, batch_size, written, the program counter, the
    \* result; history: per batch the bytes requested, the bytes copied and
    \* the value handed to the callback
    blen, bsize, bwritten, bpc, bresult, reqs, copied, cbs,
    \* main: opts.paths, the file system (path -> node, node -> kind),
    \* opts.no_clobber, opts.recursive, opts.glob, the expanded sources, the
    \* program counter, whether a driver was loaded, the driver function
    \* called, main's result
    paths, pathNode, nodeKind, noClobber, recursive, glob, sources, pc,
    loaded, called, mainResult,
    \* the status channel and its producers: the senders not yet dropped, the
    \* events queued, the events the units may still send, the most units a
    \* driver call starts; the progress bar's position and total
    inflight, chan, evLeft, unitMax, pos, tot,
    \* history: the sums of the Copied and Size values sent, the Error event
    \* received ("" for none)
    sentCopied, sentSize, errorSeen

mergeVars == <<extents, merged, remerged, mpc>>

copyVars == <<fn, src, size, todo, dst, call, written, rlen, buf, rpos, cpc,
              result, total, rets, order, shortRead, eof>>

batchVars == <<blen, bsize, bwritten, bpc, bresult, reqs, copied, cbs>>

mainVars == <<paths, pathNode, nodeKind, noClobber, recursive, glob, sources,
              pc, loaded, called, mainResult, inflight, chan, evLeft, unitMax,
              pos, tot, sentCopied, sentSize, errorSeen>>

vars == <<mergeVars, copyVars, batchVars, mainVars>>

Min(a, b) == IF a < b THEN a ELSE b
Max(a, b) == IF a > b THEN a ELSE b

\* Result<_>: kind is "none" (nothing has returned), "ok" or "err".
NoResult == [kind |-> "none", n |-> 0, err |-> "", msg |-> ""]
Ok(n) == [kind |-> "ok", n |-> n, err |-> "", msg |-> ""]
Err(e, m) == [kind |-> "err", n |-> 0, err |-> e, msg |-> m]

\* ------------------------------------------------------------------------
\* merge_extents (common.rs:127-152)
\* ------------------------------------------------------------------------

\* std::ops::Range<u64>: a start and an end, with no order imposed on them.
Rng(s, e) == [start |-> s, end |-> e]

Ranges == {Rng(s, e) : s \in 0..MaxPos, e \in 0..MaxPos}

\* The contiguity test with the "+ 1" left out.
ContiguousNoGap(p, e) == e.start = p.end

\* `if e.start == p.end + 1`
Contiguous(p, e) == e.start = p.end + 1

\* The merge arm emitting the merged range at once and starting afresh.
OnContiguousEager(p, e, acc) ==
    [prev |-> <<>>, acc |-> Append(acc, Rng(p.start, e.end))]

\* The merge arm: `prev = Some(p.start..e.end)`; nothing is pushed.
OnContiguous(p, e, acc) ==
    [prev |-> <<Rng(p.start, e.end)>>, acc |-> acc]

\* The other arm: `merged.push(p); prev = Some(e)`.
OnGap(p, e, acc) ==
    [prev |-> <<e>>, acc |-> Append(acc, p)]

\* The `for e in extents` loop and the final push. prev is <<>> for None and
\* <<p>> for Some(p).
RECURSIVE MergeLoop(_, _, _)
MergeLoop(es, prev, acc) ==
    IF es = <<>>
    THEN IF prev = <<>> THEN acc ELSE Append(acc, prev[1])
    ELSE LET e == Head(es)
             nx == IF prev = <<>>
                   THEN [prev |-> <<e>>, acc |-> acc]
                   ELSE IF Contiguous(prev[1], e)
                        THEN OnContiguous(prev[1], e, acc)
                        ELSE OnGap(prev[1], e, acc)
         IN  MergeLoop(Tail(es), nx.prev, nx.acc)

MergeExtents(xs) == MergeLoop(xs, <<>>, <<>>)

\* The inputs of test_extent_merge (common.rs:253-271).
TestVectors ==
    { <<>>,
      <<Rng(0, 1)>>,
      <<Rng(0, 1), Rng(10, 20)>>,
      <<Rng(0, 10), Rng(11, 20)>>,
      <<Rng(0, 5), Rng(11, 20), Rng(21, 30), Rng(40, 50)>>,
      <<Rng(0, 5), Rng(11, 20), Rng(21, 30), Rng(40, 50), Rng(51, 60)>>,
      <<Rng(0, 10), Rng(11, 20), Rng(21, 30), Rng(31, 50), Rng(51, 60)>> }

MergeInputs ==
    TestVectors \cup UNION {[1..n -> Ranges] : n \in 0..MaxExtents}

MergeIdle ==
    /\ extents = <<>>
    /\ merged = <<>>
    /\ remerged = <<>>
    /\ mpc = "off"

MergeInit ==
    /\ extents \in MergeInputs
    /\ merged = <<>>
    /\ remerged = <<>>
    /\ mpc = "init"

\* merge_extents(extents)
DoMerge ==
    /\ mpc = "init"
    /\ merged' = MergeExtents(extents)
    /\ mpc' = "merged"
    /\ UNCHANGED <<extents, remerged>>
    /\ UNCHANGED <<copyVars, batchVars, mainVars>>

\* merge_extents applied to its own result
DoRemerge ==
    /\ mpc = "merged"
    /\ remerged' = MergeExtents(merged)
    /\ mpc' = "remerged"
    /\ UNCHANGED <<extents, merged>>
    /\ UNCHANGED <<copyVars, batchVars, mainVars>>

MergeNext == DoMerge \/ DoRemerge

\* ------------------------------------------------------------------------
\* copy_range_uspace and copy_bytes_uspace (common.rs:64-119)
\* ------------------------------------------------------------------------

\* The values of a source byte; 0 is what a hole of the destination reads as.
Bytes == {1, 2}

NoEof == [seen |-> FALSE, written |-> 0, dst |-> <<>>]

\* The blocks within [0, sz): nbytes >= 1 bytes at offset off.
Blocks(sz) ==
    {b \in [off : 0..(sz - 1), nbytes : 1..sz] : b.off + b.nbytes <= sz}

BlockPositions(b) == b.off..(b.off + b.nbytes - 1)

\* The splits of [0, sz) into non-overlapping blocks.
Splits(sz) ==
    {P \in SUBSET Blocks(sz) :
        /\ UNION {BlockPositions(b) : b \in P} = 0..(sz - 1)
        /\ \A a, b \in P : a # b => BlockPositions(a) \cap BlockPositions(b) = {}}

\* pwrite(fd, bytes, off): the file's bytes afterwards; a gap reads as zeros.
WriteAt(d, off, bytes) ==
    [i \in 1..Max(Len(d), off + Len(bytes)) |->
        IF i > off /\ i <= off + Len(bytes) THEN bytes[i - off]
        ELSE IF i <= Len(d) THEN d[i] ELSE 0]

\* The lengths a read of up to `next` bytes at position `at` can return: 0 only
\* at the end of the file, otherwise anything from 1 byte to what is there.
ReadLens(at, next) ==
    IF Len(src) - at <= 0 \/ next = 0 THEN {0}
    ELSE 1..Min(next, Len(src) - at)

\* The lengths a pwrite of n bytes can return.
WriteLens(n) == IF n = 0 THEN {0} ELSE 1..n

\* The errno kinds a read or write can fail with.
IoKinds == {"Interrupted", "Other"}

\* `let next = cmp::min(nbytes - written, nbytes);`
NextLen(nbytes, w) == Min(nbytes - w, nbytes)

\* The offset of every pass being the block's own.
NextOffsetFixed(off, w) == off

\* `let noff = off + written;`
NextOffset(off, w) == off + w

\* Every Ok(len) taken as data.
ReadArmNoEof(len) == "data"

\* `Ok(0) => return Err(..)`, `Ok(len) => len`
ReadArm(len) == IF len = 0 THEN "eof" ELSE "data"

\* `Err(ref e) if e.kind() == ErrorKind::Interrupted => continue`,
\* `Err(e) => return Err(e.into())`
SeqReadErrArm(kind) == IF kind = "Interrupted" THEN "retry" ELSE "return"

\* copy_range_uspace's arm for a failed read: `Err(e) => return Err(e)`
RangeReadErrArm(kind) == "return"

CopyIdle ==
    /\ fn = "none" /\ src = <<>> /\ size = 0 /\ todo = {} /\ dst = <<>>
    /\ call = [off |-> 0, nbytes |-> 0] /\ written = 0 /\ rlen = 0
    /\ buf = <<>> /\ rpos = 0 /\ cpc = "off" /\ result = NoResult
    /\ total = 0 /\ rets = {} /\ order = <<>> /\ shortRead = FALSE
    /\ eof = NoEof

\* The source holds at most `size` bytes: it may have shrunk since the caller
\* took its length. The destination is freshly created.
CopyInit ==
    /\ fn \in {"range", "seq"}
    /\ size \in 1..MaxSize
    /\ src \in UNION {[1..n -> Bytes] : n \in 0..size}
    /\ todo \in IF fn = "range" THEN Splits(size)
                ELSE {{[off |-> 0, nbytes |-> size]}}
    /\ dst = <<>>
    /\ call = [off |-> 0, nbytes |-> 0] /\ written = 0 /\ rlen = 0
    /\ buf = <<>> /\ rpos = 0 /\ cpc = "idle" /\ result = NoResult
    /\ total = 0 /\ rets = {} /\ order = <<>> /\ shortRead = FALSE
    /\ eof = NoEof

\* The function returns r to its caller, who unwraps it: `written +=
\* copy_range_uspace(..).unwrap()` (common.rs:237, 202).
Return(r) ==
    /\ result' = r
    /\ IF r.kind = "ok"
       THEN /\ total' = total + r.n
            /\ rets' = rets \cup {[off |-> call.off, nbytes |-> call.nbytes, ret |-> r.n]}
            /\ cpc' = IF todo = {} THEN "finished" ELSE "idle"
       ELSE /\ cpc' = "failed"
            /\ UNCHANGED <<total, rets>>

\* The end of a loop pass: `while written < nbytes`, else `Ok(written)`.
LoopOrReturn(w) ==
    IF w < call.nbytes
    THEN /\ cpc' = "read"
         /\ UNCHANGED <<result, total, rets>>
    ELSE Return(Ok(w))

\* The caller picks one of the remaining blocks and calls the function:
\* `let mut buf = vec![0; nbytes]; let mut written = 0;`
CallCopy ==
    /\ cpc = "idle"
    /\ \E b \in todo :
        /\ todo' = todo \ {b}
        /\ call' = b
        /\ order' = Append(order, b.off)
    /\ written' = 0
    /\ rlen' = 0
    /\ buf' = [i \in 1..call'.nbytes |-> 0]
    /\ cpc' = "read"
    /\ UNCHANGED <<fn, src, size, dst, rpos, result, total, rets, shortRead, eof>>
    /\ UNCHANGED <<mergeVars, batchVars, mainVars>>

\* copy_range_uspace, lines 80-87: one positional read.
RangeRead ==
    /\ fn = "range" /\ cpc = "read"
    /\ LET next == NextLen(call.nbytes, written)
           noff == NextOffset(call.off, written)
       IN  \/ \E len \in ReadLens(noff, next) :
                /\ eof' = IF len = 0
                          THEN [seen |-> TRUE, written |-> written, dst |-> dst]
                          ELSE eof
                /\ shortRead' = (shortRead \/ (0 < len /\ len < next))
                /\ IF ReadArm(len) = "eof"
                   THEN /\ Return(Err("InvalidSource", "Source file ended prematurely."))
                        /\ UNCHANGED <<rlen, buf>>
                   ELSE /\ rlen' = len
                        /\ buf' = [i \in 1..Len(buf) |->
                                     IF i <= len THEN src[noff + i] ELSE buf[i]]
                        /\ cpc' = "write"
                        /\ UNCHANGED <<result, total, rets>>
           \/ \E kind \in IoKinds :
                /\ IF RangeReadErrArm(kind) = "return"
                   THEN Return(Err("Io", "read: " \o kind))
                   ELSE /\ cpc' = "read"
                        /\ UNCHANGED <<result, total, rets>>
                /\ UNCHANGED <<rlen, buf, shortRead, eof>>
    /\ UNCHANGED <<fn, src, size, todo, dst, call, written, rpos, order>>
    /\ UNCHANGED <<mergeVars, batchVars, mainVars>>

\* copy_range_uspace, lines 89-98: one positional write, then the loop test.
RangeWrite ==
    /\ fn = "range" /\ cpc = "write"
    /\ LET noff == NextOffset(call.off, written)
       IN  \/ \E len \in WriteLens(rlen) :
                /\ dst' = WriteAt(dst, noff, SubSeq(buf, 1, len))
                /\ IF len < rlen
                   THEN /\ Return(Err("InvalidSource", "Failed write to file."))
                        /\ UNCHANGED written
                   ELSE /\ written' = written + rlen
                        /\ LoopOrReturn(written')
           \/ \E kind \in IoKinds :
                /\ Return(Err("Io", "write: " \o kind))
                /\ UNCHANGED <<dst, written>>
    /\ UNCHANGED <<fn, src, size, todo, call, rlen, buf, rpos, order, shortRead, eof>>
    /\ UNCHANGED <<mergeVars, batchVars, mainVars>>

\* copy_bytes_uspace, lines 108-114: one read at the reader's position.
SeqRead ==
    /\ fn = "seq" /\ cpc = "read"
    /\ LET next == NextLen(call.nbytes, written)
       IN  \/ \E len \in ReadLens(rpos, next) :
                /\ eof' = IF len = 0
                          THEN [seen |-> TRUE, written |-> written, dst |-> dst]
                          ELSE eof
                /\ shortRead' = (shortRead \/ (0 < len /\ len < next))
                /\ rpos' = rpos + len
                /\ IF ReadArm(len) = "eof"
                   THEN /\ Return(Err("InvalidSource", "Source file ended prematurely."))
                        /\ UNCHANGED <<rlen, buf>>
                   ELSE /\ rlen' = len
                        /\ buf' = [i \in 1..Len(buf) |->
                                     IF i <= len THEN src[rpos + i] ELSE buf[i]]
                        /\ cpc' = "write"
                        /\ UNCHANGED <<result, total, rets>>
           \/ \E kind \in IoKinds :
                /\ IF SeqReadErrArm(kind) = "return"
                   THEN Return(Err("Io", "read: " \o kind))
                   ELSE /\ cpc' = "read"
                        /\ UNCHANGED <<result, total, rets>>
                /\ UNCHANGED <<rlen, buf, rpos, shortRead, eof>>
    /\ UNCHANGED <<fn, src, size, todo, dst, call, written, order>>
    /\ UNCHANGED <<mergeVars, batchVars, mainVars>>

\* copy_bytes_uspace, lines 115-116: write_all appends all of buf[..len] or
\* fails having appended a part of it; then the loop test.
SeqWrite ==
    /\ fn = "seq" /\ cpc = "write"
    /\ \/ /\ dst' = dst \o SubSeq(buf, 1, rlen)
          /\ written' = written + rlen
          /\ LoopOrReturn(written')
       \/ \E kind \in IoKinds, part \in 0..(rlen - 1) :
          /\ dst' = dst \o SubSeq(buf, 1, part)
          /\ Return(Err("Io", "write: " \o kind))
          /\ UNCHANGED written
    /\ UNCHANGED <<fn, src, size, todo, call, rlen, buf, rpos, order, shortRead, eof>>
    /\ UNCHANGED <<mergeVars, batchVars, mainVars>>

CopyNext == CallCopy \/ RangeRead \/ RangeWrite \/ SeqRead \/ SeqWrite

\* ------------------------------------------------------------------------
\* copy_bytes_batched (common.rs:165-177)
\* ------------------------------------------------------------------------

\* The batch size taken whole, whatever is left to copy.
BytesToCopyWhole(len, w, batch) == batch

\* `let bytes_to_copy = cmp::min(len - written, batch_size);`
BytesToCopy(len, w, batch) == Min(len - w, batch)

\* copy_file_bytes(infd, outfd, n): the byte mover copies at most the n bytes
\* it is asked for, possibly fewer, or fails.
CopyFileBytes(n) == {Ok(k) : k \in 0..n} \cup {Err("Io", "copy_file_bytes")}

RECURSIVE SumSeq(_)
SumSeq(s) == IF s = <<>> THEN 0 ELSE Head(s) + SumSeq(Tail(s))

BatchIdle ==
    /\ blen = 0 /\ bsize = 0 /\ bwritten = 0 /\ bpc = "off"
    /\ bresult = NoResult /\ reqs = <<>> /\ copied = <<>> /\ cbs = <<>>

\* `let mut written = 0u64;`
BatchInit ==
    /\ blen \in 0..MaxBatchLen
    /\ bsize \in 1..MaxBatchSize
    /\ bwritten = 0 /\ bpc = "loop"
    /\ bresult = NoResult /\ reqs = <<>> /\ copied = <<>> /\ cbs = <<>>

\* One pass of the loop, lines 169-174: the copy, `written += result`, the
\* callback. An Err of either returns from the function.
BatchPass ==
    /\ bpc = "loop"
    /\ bwritten < blen
    /\ Len(reqs) < MaxBatches
    /\ LET req == BytesToCopy(blen, bwritten, bsize)
       IN  \E r \in CopyFileBytes(req) :
            /\ reqs' = Append(reqs, req)
            /\ IF r.kind = "err"
               THEN /\ bresult' = r
                    /\ bpc' = "done"
                    /\ UNCHANGED <<bwritten, copied, cbs>>
               ELSE /\ bwritten' = bwritten + r.n
                    /\ copied' = Append(copied, r.n)
                    /\ cbs' = Append(cbs, r.n)
                    /\ \E cbOk \in BOOLEAN :
                        IF cbOk
                        THEN UNCHANGED <<bresult, bpc>>
                        ELSE /\ bresult' = Err("Callback", "callback")
                             /\ bpc' = "done"
    /\ UNCHANGED <<blen, bsize>>
    /\ UNCHANGED <<mergeVars, copyVars, mainVars>>

\* The loop test failing, line 176: `Ok(written)`.
BatchReturn ==
    /\ bpc = "loop"
    /\ ~(bwritten < blen)
    /\ bresult' = Ok(bwritten)
    /\ bpc' = "done"
    /\ UNCHANGED <<blen, bsize, bwritten, reqs, copied, cbs>>
    /\ UNCHANGED <<mergeVars, copyVars, mainVars>>

BatchNext == BatchPass \/ BatchReturn

\* ------------------------------------------------------------------------
\* is_same_file (common.rs:155-162) and main (main.rs:85-176)
\* ------------------------------------------------------------------------

\* The path names of the model; Star is the pattern "*", which as a literal
\* path names no file.
Paths == {"a", "b"}
Star == "*"

\* What metadata() tells of a file: its device and its inode.
Nodes == {[dev |-> 1, ino |-> 1], [dev |-> 1, ino |-> 2], [dev |-> 2, ino |-> 1]}
None == [dev |-> 0, ino |-> 0]

Kinds == {"file", "dir"}

ErrorNames == {"e1", "e2"}

\* StatusUpdate: Copied(v), Size(v), Error(e)
Events ==
    {[type |-> t, v |-> v, e |-> ""] : t \in {"Copied", "Size"}, v \in 1..MaxValue}
    \cup {[type |-> "Error", v |-> 0, e |-> e] : e \in ErrorNames}

\* Path::metadata(): symlinks followed, None for a path that names nothing.
Metadata(p) == IF p \in Paths THEN pathNode[p] ELSE None

Exists(p) == Metadata(p) # None
IsDir(p) == Exists(p) /\ nodeKind[Metadata(p)] = "dir"
IsFile(p) == Exists(p) /\ nodeKind[Metadata(p)] = "file"

\* is_same_file(src, dest): an Err when either metadata() fails, else whether
\* inode and device both agree (Ok(1) for true, Ok(0) for false).
IsSameFile(s, d) ==
    IF ~Exists(s) \/ ~Exists(d) THEN Err("Io", "NotFound")
    ELSE IF Metadata(s).ino = Metadata(d).ino /\ Metadata(s).dev = Metadata(d).dev
         THEN Ok(1) ELSE Ok(0)

\* glob(pattern): the existing paths the pattern matches, in order. A literal
\* pattern that names nothing yields nothing (the FIXME of line 56). The
\* patterns of the model are well formed and every directory is readable, so
\* the two `?` of expand_globs never fire.
Glob(p) ==
    IF p = Star
    THEN (IF Exists("a") THEN <<"a">> ELSE <<>>) \o (IF Exists("b") THEN <<"b">> ELSE <<>>)
    ELSE IF Exists(p) THEN <<p>> ELSE <<>>

\* expand_globs, lines 58-72: the matches of every pattern, concatenated.
RECURSIVE ExpandGlobs(_)
ExpandGlobs(patterns) ==
    IF patterns = <<>> THEN <<>>
    ELSE Glob(Head(patterns)) \o ExpandGlobs(Tail(patterns))

\* expand_sources, lines 74-83
ExpandSources(patterns) ==
    IF glob THEN ExpandGlobs(patterns) ELSE patterns

\* `opts.paths.split_last()`
Dest == paths[Len(paths)]
SourcePatterns == SubSeq(paths, 1, Len(paths) - 1)

\* The body of the sanity loop for one source, lines 136-150.
SourceCheck(source) ==
    IF ~Exists(source)
    THEN Err("InvalidSource", "Source does not exist.")
    ELSE IF IsDir(source) /\ ~recursive
    THEN Err("InvalidSource", "Source is directory and --recursive not specified.")
    ELSE IF source = Dest
    THEN Err("InvalidSource", "Cannot copy a directory into itself")
    ELSE IF Exists(Dest) /\ ~IsDir(Dest)
    THEN Err("InvalidDestination", "Source is directory but target exists and is not a directory")
    ELSE Ok(0)

\* `for source in &sources`: the first error, or Ok.
RECURSIVE SanityCheck(_)
SanityCheck(srcs) ==
    IF srcs = <<>> THEN Ok(0)
    ELSE IF SourceCheck(Head(srcs)).kind = "err" THEN SourceCheck(Head(srcs))
    ELSE SanityCheck(Tail(srcs))

\* The checks of the single-file branch, lines 119-127.
SingleCheck(source) ==
    IF noClobber
    THEN Err("DestinationExists", "Destination file exists and --no-clobber is set.")
    ELSE IF IsSameFile(source, Dest).kind = "err"
    THEN IsSameFile(source, Dest)
    ELSE IF IsSameFile(source, Dest).n = 1
    THEN Err("DestinationExists", "Source and destination is the same file.")
    ELSE Ok(0)

\* The drain loop's match, lines 161-169, with the Copied and Size arms
\* swapped.
DrainArmSwapped(stat, p, t) ==
    IF stat.type = "Copied" THEN [pos |-> p, tot |-> t + stat.v, ret |-> NoResult]
    ELSE IF stat.type = "Size" THEN [pos |-> p + stat.v, tot |-> t, ret |-> NoResult]
    ELSE [pos |-> p, tot |-> t, ret |-> Err("Status", stat.e)]

\* The drain loop's match, lines 161-169: pb.inc(v), pb.inc_size(v), or
\* `return Err(e.into())`.
DrainArm(stat, p, t) ==
    IF stat.type = "Copied" THEN [pos |-> p + stat.v, tot |-> t, ret |-> NoResult]
    ELSE IF stat.type = "Size" THEN [pos |-> p, tot |-> t + stat.v, ret |-> NoResult]
    ELSE [pos |-> p, tot |-> t, ret |-> Err("Status", stat.e)]

MainIdle ==
    /\ paths = <<>> /\ pathNode = [p \in Paths |-> None]
    /\ nodeKind = [n \in Nodes |-> "file"]
    /\ noClobber = FALSE /\ recursive = FALSE /\ glob = FALSE
    /\ sources = <<>> /\ pc = "off" /\ loaded = FALSE /\ called = "none"
    /\ mainResult = NoResult /\ inflight = 0 /\ chan = <<>> /\ evLeft = 0
    /\ unitMax = 0 /\ pos = 0 /\ tot = 0 /\ sentCopied = 0 /\ sentSize = 0
    /\ errorSeen = ""

MainStart ==
    /\ sources = <<>> /\ pc = "start" /\ loaded = FALSE /\ called = "none"
    /\ mainResult = NoResult /\ inflight = 0 /\ chan = <<>>
    /\ pos = 0 /\ tot = 0 /\ sentCopied = 0 /\ sentSize = 0
    /\ errorSeen = ""

\* Every command line of up to two sources over every file system; the
\* driver's workers send at most one event.
MainInit ==
    /\ paths \in UNION {[1..n -> Paths \cup {Star}] : n \in 0..3}
    /\ pathNode \in [Paths -> Nodes \cup {None}]
    /\ nodeKind \in [Nodes -> Kinds]
    /\ noClobber \in BOOLEAN /\ recursive \in BOOLEAN /\ glob \in BOOLEAN
    /\ unitMax = 1 /\ evLeft = 1
    /\ MainStart

\* One file "a" copied to "b", which is missing, a file or a directory; the
\* driver's workers send up to MaxEvents events.
DrainInit ==
    /\ paths = <<"a", "b">>
    /\ pathNode \in {f \in [Paths -> Nodes \cup {None}] :
                        f["a"] = [dev |-> 1, ino |-> 1]
                        /\ f["b"] \in {None, [dev |-> 1, ino |-> 2]}}
    /\ nodeKind \in {k \in [Nodes -> Kinds] :
                        k[[dev |-> 1, ino |-> 1]] = "file"
                        /\ k[[dev |-> 2, ino |-> 1]] = "file"}
    /\ noClobber = FALSE /\ recursive = FALSE /\ glob = FALSE
    /\ unitMax = MaxUnits /\ evLeft = MaxEvents
    /\ MainStart

inputVars == <<paths, pathNode, nodeKind, noClobber, recursive, glob, unitMax>>
busVars == <<inflight, chan, evLeft, pos, tot, sentCopied, sentSize, errorSeen>>

\* `return Err(..)` or the final `Ok(())`: main is over and the process ends.
Exit(r) ==
    /\ mainResult' = r
    /\ pc' = "exit"

\* Lines 89-99: split the arguments; several source patterns need a
\* directory as destination.
SplitArgs ==
    /\ pc = "start"
    /\ IF paths = <<>>
       THEN Exit(Err("InvalidArguments", "Insufficient arguments"))
       ELSE IF Len(SourcePatterns) > 1 /\ ~IsDir(Dest)
       THEN Exit(Err("InvalidDestination", "Multiple sources and destination is not a directory."))
       ELSE /\ pc' = "expand"
            /\ UNCHANGED mainResult
    /\ UNCHANGED <<inputVars, busVars, sources, loaded, called>>
    /\ UNCHANGED <<mergeVars, copyVars, batchVars>>

\* Lines 101-105: expand the sources; none is an error.
Expand ==
    /\ pc = "expand"
    /\ sources' = ExpandSources(SourcePatterns)
    /\ IF sources' = <<>>
       THEN Exit(Err("InvalidSource", "No source files found."))
       ELSE /\ pc' = "load"
            /\ UNCHANGED mainResult
    /\ UNCHANGED <<inputVars, busVars, loaded, called>>
    /\ UNCHANGED <<mergeVars, copyVars, batchVars>>

\* Lines 107-113: the channel is set up and `load_driver(..)?` gives the
\* driver or refuses.
LoadDriver ==
    /\ pc = "load"
    /\ \E ok \in BOOLEAN :
        IF ok
        THEN /\ loaded' = TRUE
             /\ pc' = "dispatch"
             /\ UNCHANGED mainResult
        ELSE /\ Exit(Err("UnsupportedOS", "load_driver"))
             /\ UNCHANGED loaded
    /\ UNCHANGED <<inputVars, busVars, sources, called>>
    /\ UNCHANGED <<mergeVars, copyVars, batchVars>>

\* `driver.copy_single(..)?` / `driver.copy_all(..)?`: the driver fails, or it
\* returns having started up to unitMax workers that hold senders.
DriverCall(name) ==
    /\ called' = name
    /\ \E ok \in BOOLEAN :
        IF ok
        THEN /\ \E n \in 0..unitMax : inflight' = n
             /\ pc' = "bar"
             /\ UNCHANGED mainResult
        ELSE /\ Exit(Err("CopyError", name))
             /\ UNCHANGED inflight

\* Lines 115-131: one source and a destination that is a regular file.
CopySingle ==
    /\ pc = "dispatch"
    /\ Len(sources) = 1 /\ IsFile(Dest)
    /\ IF SingleCheck(sources[1]).kind = "err"
       THEN /\ Exit(SingleCheck(sources[1]))
            /\ UNCHANGED <<called, inflight>>
       ELSE DriverCall("copy_single")
    /\ UNCHANGED <<inputVars, sources, loaded>>
    /\ UNCHANGED <<chan, evLeft, pos, tot, sentCopied, sentSize, errorSeen>>
    /\ UNCHANGED <<mergeVars, copyVars, batchVars>>

\* Lines 132-154: every other case; all sources are checked up front.
CopyAll ==
    /\ pc = "dispatch"
    /\ ~(Len(sources) = 1 /\ IsFile(Dest))
    /\ IF SanityCheck(sources).kind = "err"
       THEN /\ Exit(SanityCheck(sources))
            /\ UNCHANGED <<called, inflight>>
       ELSE DriverCall("copy_all")
    /\ UNCHANGED <<inputVars, sources, loaded>>
    /\ UNCHANGED <<chan, evLeft, pos, tot, sentCopied, sentSize, errorSeen>>
    /\ UNCHANGED <<mergeVars, copyVars, batchVars>>

\* Line 156: `progress::create_bar(&opts, 0)?`
CreateBar ==
    /\ pc = "bar"
    /\ \E ok \in BOOLEAN :
        IF ok
        THEN /\ pc' = "drain"
             /\ UNCHANGED mainResult
        ELSE Exit(Err("Bar", "create_bar"))
    /\ UNCHANGED <<inputVars, busVars, sources, loaded, called>>
    /\ UNCHANGED <<mergeVars, copyVars, batchVars>>

\* Lines 160-169: the loop takes the oldest queued event.
Recv ==
    /\ pc = "drain"
    /\ chan # <<>>
    /\ LET arm == DrainArm(Head(chan), pos, tot)
       IN  /\ chan' = Tail(chan)
           /\ pos' = arm.pos
           /\ tot' = arm.tot
           /\ errorSeen' = IF errorSeen = "" /\ Head(chan).type = "Error"
                           THEN Head(chan).e ELSE errorSeen
           /\ IF arm.ret.kind = "err"
              THEN Exit(arm.ret)
              ELSE UNCHANGED <<pc, mainResult>>
    /\ UNCHANGED <<inputVars, sources, loaded, called>>
    /\ UNCHANGED <<inflight, evLeft, sentCopied, sentSize>>
    /\ UNCHANGED <<mergeVars, copyVars, batchVars>>

\* Lines 170-175: the channel is empty and every sender is dropped, so the
\* iteration ends: "Copy complete", `Ok(())`.
DrainEnd ==
    /\ pc = "drain"
    /\ chan = <<>>
    /\ inflight = 0
    /\ Exit(Ok(0))
    /\ UNCHANGED <<inputVars, busVars, sources, loaded, called>>
    /\ UNCHANGED <<mergeVars, copyVars, batchVars>>

\* The process is alive between the driver call and main's return.
Running == pc \in {"bar", "drain"}

\* A worker unit sends a status event.
UnitSend ==
    /\ Running
    /\ inflight > 0
    /\ evLeft > 0
    /\ \E ev \in Events :
        /\ chan' = Append(chan, ev)
        /\ sentCopied' = sentCopied + (IF ev.type = "Copied" THEN ev.v ELSE 0)
        /\ sentSize' = sentSize + (IF ev.type = "Size" THEN ev.v ELSE 0)
    /\ evLeft' = evLeft - 1
    /\ UNCHANGED <<inputVars, sources, pc, loaded, called, mainResult>>
    /\ UNCHANGED <<inflight, pos, tot, errorSeen>>
    /\ UNCHANGED <<mergeVars, copyVars, batchVars>>

\* A worker unit finishes and drops its sender.
UnitDrop ==
    /\ Running
    /\ inflight > 0
    /\ inflight' = inflight - 1
    /\ UNCHANGED <<inputVars, sources, pc, loaded, called, mainResult>>
    /\ UNCHANGED <<chan, evLeft, pos, tot, sentCopied, sentSize, errorSeen>>
    /\ UNCHANGED <<mergeVars, copyVars, batchVars>>

MainNext ==
    \/ SplitArgs \/ Expand \/ LoadDriver \/ CopySingle \/ CopyAll
    \/ CreateBar \/ Recv \/ DrainEnd \/ UnitSend \/ UnitDrop

\* ------------------------------------------------------------------------
\* Specifications: each runs one part of the program, the others at rest
\* ------------------------------------------------------------------------

InitMerge == MergeInit /\ CopyIdle /\ BatchIdle /\ MainIdle
SpecMerge == InitMerge /\ [][MergeNext]_vars

InitCopy == MergeIdle /\ CopyInit /\ BatchIdle /\ MainIdle
SpecCopy == InitCopy /\ [][CopyNext]_vars

InitBatch == MergeIdle /\ CopyIdle /\ BatchInit /\ MainIdle
SpecBatch == InitBatch /\ [][BatchNext]_vars

InitMain == MergeIdle /\ CopyIdle /\ BatchIdle /\ MainInit
SpecMain == InitMain /\ [][MainNext]_vars

InitDrain == MergeIdle /\ CopyIdle /\ BatchIdle /\ DrainInit
SpecDrain == InitDrain /\ [][MainNext]_vars

\* ---- C4 ----------------------------------------------------------------

\* Index i of xs starts a new output range: it is first, or it does not
\* start one past the end of its predecessor.
StartsRun(xs, i) == i = 1 \/ xs[i].start # xs[i - 1].end + 1

RunStarts(xs) == {i \in 1..Len(xs) : StartsRun(xs, i)}

\* The k-th smallest element of a set of integers.
Nth(S, k) == CHOOSE i \in S : Cardinality({j \in S : j < i}) = k - 1

\* The last index of the run that starts at i.
RunEnd(xs, i) ==
    CHOOSE j \in i..Len(xs) :
        /\ \A k \in (i + 1)..j : ~StartsRun(xs, k)
        /\ j = Len(xs) \/ StartsRun(xs, j + 1)

\* One output range per maximal chain of inputs, from the chain's first start
\* to its last end.
ChainMerge(xs) ==
    [k \in 1..Cardinality(RunStarts(xs)) |->
        LET i == Nth(RunStarts(xs), k)
        IN  Rng(xs[i].start, xs[RunEnd(xs, i)].end)]

\* C4: merge_extents returns the result of one left-to-right pass that joins
\* a range to the running one exactly when it starts one past the running
\* end; the listed examples come out as stated.
C4_MergeIsChainPass ==
    mpc # "init" =>
        /\ merged = ChainMerge(extents)
        /\ extents = <<>> => merged = <<>>
        /\ extents = <<Rng(0, 1), Rng(10, 20)>> => merged = extents
        /\ extents = <<Rng(0, 10), Rng(11, 20)>> => merged = <<Rng(0, 20)>>
        /\ extents = <<Rng(0, 5), Rng(11, 20), Rng(21, 30), Rng(40, 50), Rng(51, 60)>>
              => merged = <<Rng(0, 5), Rng(11, 30), Rng(40, 60)>>
        /\ (extents # <<>> /\ \A i \in 2..Len(extents) : ~StartsRun(extents, i))
              => merged = <<Rng(extents[1].start, extents[Len(extents)].end)>>

\* A three-range input whose last two ranges were joined and whose first was
\* emitted on its own.
C4_Witness ==
    /\ mpc = "merged"
    /\ Len(extents) = 3
    /\ Len(merged) = 2
    /\ merged[2] = Rng(extents[2].start, extents[3].end)

\* ---- C5 ----------------------------------------------------------------

\* The byte positions of a half-open range [start, end).
Positions(r) == r.start..(r.end - 1)

Cover(xs) == UNION {Positions(xs[i]) : i \in 1..Len(xs)}

\* C5: merging neither adds nor removes a byte position of the half-open
\* input ranges, and the output keeps the input's order (each output range
\* starts at the start of the input range that opened its chain).
C5_CoverPreserved ==
    mpc # "init" =>
        /\ Cover(merged) = Cover(extents)
        /\ Len(merged) = Cardinality(RunStarts(extents))
        /\ \A k \in 1..Len(merged) :
              merged[k].start = extents[Nth(RunStarts(extents), k)].start

\* ---- C6 ----------------------------------------------------------------

\* C6: merge_extents is idempotent, and no two consecutive ranges of its
\* output satisfy the merge condition.
C6_MergeIdempotent ==
    /\ mpc = "remerged" => remerged = merged
    /\ mpc # "init" =>
          \A i \in 1..(Len(merged) - 1) :
              merged[i + 1].start # merged[i].end + 1

\* A second pass over an output that the first pass shortened and that still
\* holds two ranges.
C6_Witness ==
    /\ mpc = "remerged"
    /\ Len(extents) = 3
    /\ Len(merged) = 2
    /\ remerged = merged

\* ---- C2 ----------------------------------------------------------------

\* C2: every successful copy_range_uspace call returns its block length;
\* once every block of a split of [0, size) has been copied, in any order and
\* with short reads, the returned values sum to size and the destination has
\* length size and the source's byte at every offset.
C2_RangeCopyComplete ==
    fn = "range" =>
        /\ \A r \in rets : r.ret = r.nbytes
        /\ cpc = "finished" =>
              /\ total = size
              /\ Len(src) = size
              /\ Len(dst) = size
              /\ \A i \in 1..size : dst[i] = src[i]

\* All blocks of a split into several blocks copied in descending offset
\* order, with a read that came back short on the way.
C2_Witness ==
    /\ fn = "range" /\ cpc = "finished"
    /\ Len(order) >= 2
    /\ \A i \in 1..(Len(order) - 1) : order[i] > order[i + 1]
    /\ shortRead

\* ---- C8 ----------------------------------------------------------------

EofStops ==
    /\ cpc = "failed"
    /\ dst = eof.dst
    /\ written = eof.written

C9_InterruptedReadRetried ==
    ~(result.kind = "err" /\ result.msg = "read: Interrupted")

\* ---- C3 ----------------------------------------------------------------

\* C3: when copy_bytes_batched returns Ok(w), the callback was called once
\* per batch with that batch's copied count, no batch asked for more than
\* batch_size bytes, the callback values sum to len, and w = len; short
\* batches included.
C3_BatchedAccounting ==
    /\ cbs = copied
    /\ bresult.kind = "ok" =>
          /\ bresult.n = blen
          /\ Len(cbs) = Len(reqs)
          /\ \A i \in 1..Len(reqs) : reqs[i] <= bsize /\ copied[i] <= reqs[i]
          /\ SumSeq(cbs) = blen

\* An Ok after several batches, one of which copied less than it was asked.
C3_Witness ==
    /\ bresult.kind = "ok"
    /\ Len(reqs) >= 3
    /\ \E i \in 1..Len(reqs) : 0 < copied[i] /\ copied[i] < reqs[i]

\* ---- C1 ----------------------------------------------------------------

\* The driver is loaded and some source resolves to the file the destination
\* resolves to.
SameFileRun ==
    /\ loaded
    /\ \E i \in 1..Len(sources) :
          /\ Exists(sources[i])
          /\ Metadata(sources[i]) = Metadata(Dest)

\* C1: whenever a source and the destination are the same file, whatever the
\* number of sources and the kind of the destination, the run is rejected
\* and neither copy_single nor copy_all is called. (The claim also names the
\* error, InvalidDestination; the formula asks only for a rejection before
\* any driver call.)
C1_SameFileRejected ==
    SameFileRun =>
        /\ called = "none"
        /\ pc = "exit" => mainResult.kind = "err"

\* ---- C7 ----------------------------------------------------------------

\* The driver is loaded, some source is a directory and recursive is off.
DirSourceRun ==
    /\ loaded
    /\ ~recursive
    /\ \E i \in 1..Len(sources) : IsDir(sources[i])

\* C7: whenever a source is a directory and recursive is false, whatever the
\* number of sources and the destination, the run fails and neither
\* copy_single nor copy_all is called. (The claim also names the error,
\* InvalidSource; the formula asks only for a failure before any driver
\* call.)
C7_DirSourceRejected ==
    DirSourceRun =>
        /\ called = "none"
        /\ pc = "exit" => mainResult.kind = "err"

\* ---- C10 ---------------------------------------------------------------

RECURSIVE SumOf(_, _)
SumOf(q, type) ==
    IF q = <<>> THEN 0
    ELSE (IF Head(q).type = type THEN Head(q).v ELSE 0) + SumOf(Tail(q), type)

\* Events are consumed in arrival order and added up: what the bar shows and
\* what is still queued is what was sent. Without an Error event the run ends
\* only when every sender is dropped and the queue is empty, and then in
\* success with everything sent accounted for. An Error event ends the run
\* with that error as soon as it is received.
DrainAccounting ==
    /\ errorSeen = "" =>
          /\ pos + SumOf(chan, "Copied") = sentCopied
          /\ tot + SumOf(chan, "Size") = sentSize
    /\ (pc = "exit" /\ called # "none" /\ mainResult.kind = "ok") =>
          /\ errorSeen = ""
          /\ inflight = 0 /\ chan = <<>>
          /\ pos = sentCopied /\ tot = sentSize
    /\ (pc = "drain" /\ inflight = 0 /\ chan = <<>>) => ENABLED DrainEnd
    /\ errorSeen # "" =>
          /\ pc = "exit"
          /\ mainResult = Err("Status", errorSeen)

====
